---- MODULE Spec2Model ----
(***************************************************************************)
(* A model of strava_cli.py: the GPX activity-type inference               *)
(* (test_metadata, test_keywords, extract_points, test_data,               *)
(* determine_gpx_activity, normalize_activity) and the bulk upload loop    *)
(* with its uploaded-files log (upload_folder, is_already_uploaded,        *)
(* log_uploaded_file).                                                     *)
(*                                                                         *)
(* Representation.  A Python str that the code searches, lower-cases or    *)
(* strips is a sequence of one-character strings; the two non-ASCII        *)
(* letters of the keyword table are written "l/" and "o'".  A detector     *)
(* verdict is an atomic string; the code's integer 0 ("no signal") is      *)
(* NO_SIGNAL.  Coordinates are integers in units of 1/R radian, i.e. one   *)
(* metre of great-circle arc, and all points of a track lie on one         *)
(* meridian, where the haversine formula reduces to R * |dphi|.            *)
(***************************************************************************)
EXTENDS FiniteSets, Integers, Sequences, TLC

VARIABLES doc, pc, track, r1, r2, r3, activity, folder, log, posts, idx, runs

vars == <<doc, pc, track, r1, r2, r3, activity, folder, log, posts, idx, runs>>

gpxVars == <<doc, track, r1, r2, r3, activity>>

uploadVars == <<folder, log, posts, idx, runs>>

----------------------------------------------------------------------------
(* Strings *)

UPPER == <<"A","B","C","D","E","F","G","H","I","J","K","L","M",
           "N","O","P","Q","R","S","T","U","V","W","X","Y","Z">>

LOWER == <<"a","b","c","d","e","f","g","h","i","j","k","l","m",
           "n","o","p","q","r","s","t","u","v","w","x","y","z">>

\* str.lower() on one character
LowerChar(c) ==
    IF c \in {UPPER[i] : i \in DOMAIN UPPER}
    THEN LOWER[CHOOSE i \in DOMAIN UPPER : UPPER[i] = c]
    ELSE c

\* str.lower()
Lower(s) == [i \in DOMAIN s |-> LowerChar(s[i])]

\* the Python test "k in text" on strings: k occurs as a contiguous substring
Contains(k, text) ==
    \E i \in 1..(Len(text) - Len(k) + 1) : \A j \in DOMAIN k : text[i + j - 1] = k[j]

RECURSIVE Join(_, _)
\* sep.join(parts)
Join(sep, parts) ==
    IF parts = <<>> THEN <<>>
    ELSE IF Len(parts) = 1 THEN parts[1]
    ELSE parts[1] \o sep \o Join(sep, Tail(parts))

WHITESPACE == {" ", "\n", "\t", "\r"}

RECURSIVE LStrip(_)
LStrip(s) == IF s # <<>> /\ s[1] \in WHITESPACE THEN LStrip(Tail(s)) ELSE s

RECURSIVE RStrip(_)
RStrip(s) ==
    IF s # <<>> /\ s[Len(s)] \in WHITESPACE THEN RStrip(SubSeq(s, 1, Len(s) - 1)) ELSE s

\* str.strip()
Strip(s) == RStrip(LStrip(s))

----------------------------------------------------------------------------
(* Static tables *)

NO_SIGNAL == "0"

\* the exception that escapes test_data when two datetimes cannot be subtracted
TYPE_ERROR == "TypeError"

\* the keys of ACTIVITY_MAP in insertion order, the order a dict iterates in
ACTIVITY_ORDER == <<"ride", "run", "swim", "walk", "hike", "workout">>

ACTIVITY_MAP(act) ==
    CASE act = "ride" ->
        << <<"r","i","d","e">>,
           <<"b","i","k","e">>,
           <<"b","i","c","y","c","l","e">>,
           <<"c","y","c","l","i","n","g">>,
           <<"r","o","w","e","r">>,
           <<"r","a","d">>,
           <<"v","e","l","o">>,
           <<"m","t","b">>,
           <<"r","o","a","d","b","i","k","e">> >>
    [] act = "run" ->
        << <<"r","u","n">>,
           <<"r","u","n","n","i","n","g">>,
           <<"j","o","g">>,
           <<"j","o","g","g","i","n","g">>,
           <<"b","i","e","g","a","n","i","e">> >>
    [] act = "swim" ->
        << <<"s","w","i","m">>,
           <<"s","w","i","m","m","i","n","g">>,
           <<"p","o","o","l">>,
           <<"o","p","e","n"," ","w","a","t","e","r">>,
           <<"b","a","s","e","n">>,
           <<"p","l/","y","w","a","n","i","e">> >>
    [] act = "walk" ->
        << <<"w","a","l","k">>,
           <<"w","a","l","k","i","n","g">>,
           <<"s","p","a","c","e","r">>,
           <<"w","a","l","k","i","n","g"," ","a","c","t","i","v","i","t","y">> >>
    [] act = "hike" ->
        << <<"h","i","k","e">>,
           <<"h","i","k","i","n","g">>,
           <<"t","r","e","k">>,
           <<"t","r","e","k","k","i","n","g">>,
           <<"m","o","u","n","t","a","i","n">>,
           <<"g","o'","r","y">> >>
    [] act = "workout" ->
        << <<"w","o","r","k","o","u","t">>,
           <<"t","r","a","i","n","i","n","g">>,
           <<"g","y","m">>,
           <<"f","i","t","n","e","s","s">>,
           <<"s","t","r","e","n","g","t","h">>,
           <<"h","i","i","t">> >>

NORMALIZED_OUTPUT ==
    [k \in {"ride", "run", "swim", "walk", "hike", "workout", "other"} |->
        CASE k = "ride" -> "Ride"
          [] k = "run" -> "Run"
          [] k = "swim" -> "Swim"
          [] k = "walk" -> "Walk"
          [] k = "hike" -> "Hike"
          [] k = "workout" -> "Workout"
          [] k = "other" -> "Other"]

\* the tag fragments test_metadata looks for
META_MARKERS ==
    << <<"a","c","t","i","v","i","t","y">>,
       <<"s","p","o","r","t">>,
       <<"t","y","p","e">>,
       <<"a","c","t","i","v","i","t","y","t","y","p","e">>,
       <<"t","r","a","c","k","t","y","p","e">>,
       <<"k","e","y","w","o","r","d","s">> >>

\* the element names test_keywords reads, in the order it reads them
KEYWORD_FIELDS ==
    << <<"n","a","m","e">>,
       <<"d","e","s","c">>,
       <<"c","m","t">>,
       <<"k","e","y","w","o","r","d","s">> >>

DEPTH == <<"d","e","p","t","h">>

TRKPT == <<"t","r","k","p","t">>

TIME == <<"t","i","m","e">>

----------------------------------------------------------------------------
(* The parsed document (xml.etree.ElementTree).                            *)
(* root = [tag, text, meta, trk]: the root element, its leaf descendants   *)
(* meta (records [tag, text]) and, after them in document order, the       *)
(* point elements trk (records [tag, lat, lon, time, ext]).  lat and lon   *)
(* are the attribute strings by kind: [k |-> "absent"] (no attribute),     *)
(* "empty" (""), "junk" (not a number) or "num" with value v.  time is the *)
(* text of the child named time by kind: "absent" (no such child),         *)
(* "notext" (text is None), "junk" (not ISO-8601), or an ISO-8601 instant  *)
(* of v seconds written with a "Z" suffix ("Z"), with a numeric offset     *)
(* ("offset") or without any zone ("naive").  ext holds the other leaf     *)
(* children of the point.                                                  *)

\* the "{*}name" test of ElementTree paths: the tag without a "{namespace}" prefix
LocalName(tag) ==
    IF tag # <<>> /\ tag[1] = "{" /\ (\E i \in DOMAIN tag : tag[i] = "}")
    THEN LET close == CHOOSE i \in DOMAIN tag :
                          tag[i] = "}" /\ \A j \in 1..(i - 1) : tag[j] # "}"
         IN  SubSeq(tag, close + 1, Len(tag))
    ELSE tag

RECURSIVE Flatten(_)
Flatten(ss) == IF ss = <<>> THEN <<>> ELSE Head(ss) \o Flatten(Tail(ss))

\* a point element followed by its children, as [tag, text] records; the text of
\* the time child is read only through trkpt.find (see extract_points)
Subtree(e) ==
    <<[tag |-> e.tag, text |-> <<>>]>>
    \o (IF e.time.k = "absent" THEN <<>> ELSE <<[tag |-> TIME, text |-> <<>>]>>)
    \o e.ext

\* every element below the root, in document order
Descendants(root) ==
    root.meta \o Flatten([i \in DOMAIN root.trk |-> Subtree(root.trk[i])])

\* root.iter(): the root, then its descendants, in document order
Iter(root) == <<[tag |-> root.tag, text |-> root.text]>> \o Descendants(root)

\* root.findall(".//{*}name"): the descendants (never the root) named name
FindAll(root, name) ==
    SelectSeq(Descendants(root), LAMBDA e : LocalName(e.tag) = name)

----------------------------------------------------------------------------
(* normalize_activity.  Its argument is a detector verdict, a key of        *)
(* ACTIVITY_MAP already in lower case, so label.lower() leaves it as it is. *)

\* variant: the tag is passed on instead of being looked up
normalize_activity_PassThrough(label) ==
    IF label = NO_SIGNAL THEN "Other" ELSE label

normalize_activity(label) ==
    IF label = NO_SIGNAL THEN "Other"
    ELSE IF label \in DOMAIN NORMALIZED_OUTPUT THEN NORMALIZED_OUTPUT[label]
    ELSE "Other"

----------------------------------------------------------------------------
(* test_metadata and test_keywords *)

\* any(k in text for k in keywords)
AnyKeyword(act, text) ==
    \E i \in DOMAIN ACTIVITY_MAP(act) : Contains(ACTIVITY_MAP(act)[i], text)

RECURSIVE FirstActivity(_, _)
\* for act, keywords in ACTIVITY_MAP.items(): the first act, from position i on,
\* one of whose keywords occurs in text
FirstActivity(text, i) ==
    IF i > Len(ACTIVITY_ORDER) THEN NO_SIGNAL
    ELSE IF AnyKeyword(ACTIVITY_ORDER[i], text) THEN ACTIVITY_ORDER[i]
    ELSE FirstActivity(text, i + 1)

\* any(k in tag for k in [...markers...])
HasMarker(tag) ==
    \E i \in DOMAIN META_MARKERS : Contains(META_MARKERS[i], tag)

\* the first loop of test_metadata
Candidates(root) ==
    LET hits == SelectSeq(Iter(root), LAMBDA e : HasMarker(Lower(e.tag)))
    IN  [i \in DOMAIN hits |-> Lower(hits[i].text)]

RECURSIVE ScanActivities(_, _)
\* variant: the loops are nested the other way round, activities outermost
ScanActivities(candidates, i) ==
    IF i > Len(ACTIVITY_ORDER) THEN NO_SIGNAL
    ELSE IF \E c \in DOMAIN candidates : AnyKeyword(ACTIVITY_ORDER[i], candidates[c])
         THEN ACTIVITY_ORDER[i]
    ELSE ScanActivities(candidates, i + 1)

RECURSIVE ScanCandidates(_, _)
\* the second loop of test_metadata, from candidate i on
ScanCandidates(candidates, i) ==
    IF i > Len(candidates) THEN NO_SIGNAL
    ELSE LET act == FirstActivity(candidates[i], 1)
         IN  IF act # NO_SIGNAL THEN act ELSE ScanCandidates(candidates, i + 1)

test_metadata(root) == ScanCandidates(Candidates(root), 1)

\* variant: the keywords field is left out of the fields read
KeywordTexts_NoKeywords(root) ==
    Flatten([f \in 1..3 |->
        LET els == SelectSeq(FindAll(root, KEYWORD_FIELDS[f]), LAMBDA e : e.text # <<>>)
        IN  [i \in DOMAIN els |-> Lower(els[i].text)]])

\* texts of test_keywords: field by field, the non-empty texts, lower-cased
KeywordTexts(root) ==
    Flatten([f \in DOMAIN KEYWORD_FIELDS |->
        LET els == SelectSeq(FindAll(root, KEYWORD_FIELDS[f]), LAMBDA e : e.text # <<>>)
        IN  [i \in DOMAIN els |-> Lower(els[i].text)]])

Blob(root) == Join(<<" ">>, KeywordTexts(root))

test_keywords(root) == FirstActivity(Blob(root), 1)

----------------------------------------------------------------------------
(* extract_points *)

\* "if lat" on the result of attrib.get: neither None nor ""
Truthy(a) == a.k \notin {"absent", "empty"}

\* float(a) raises ValueError
FloatRaises(a) == a.k # "num"

\* time_el.text.replace("Z", "+00:00"): AttributeError on None; a "Z" suffix
\* becomes an explicit offset
ReplaceZ(t) == IF t.k = "Z" THEN [k |-> "offset", v |-> t.v] ELSE t

\* the replace or datetime.fromisoformat raises
FromIsoRaises(t) == t.k \in {"notext", "junk"}

\* datetime.fromisoformat on a string that parses: aware iff it carries an offset
FromIsoFormat(t) == [aware |-> (t.k = "offset"), secs |-> t.v]

\* the body of the loop of extract_points for one trkpt: the points it appends
PointsOf(trkpt) ==
    IF Truthy(trkpt.lat) /\ Truthy(trkpt.lon) /\ trkpt.time.k # "absent"
    THEN IF FromIsoRaises(ReplaceZ(trkpt.time))
            \/ FloatRaises(trkpt.lat) \/ FloatRaises(trkpt.lon)
         THEN <<>>
         ELSE <<[lat |-> trkpt.lat.v, lon |-> trkpt.lon.v,
                 t |-> FromIsoFormat(ReplaceZ(trkpt.time))]>>
    ELSE <<>>

RECURSIVE ExtractLoop_Prepend(_, _)
\* variant: each point is put in front of the list instead of behind it
ExtractLoop_Prepend(trkpts, points) ==
    IF trkpts = <<>> THEN points
    ELSE ExtractLoop_Prepend(Tail(trkpts), PointsOf(Head(trkpts)) \o points)

RECURSIVE ExtractLoop(_, _)
ExtractLoop(trkpts, points) ==
    IF trkpts = <<>> THEN points
    ELSE ExtractLoop(Tail(trkpts), points \o PointsOf(Head(trkpts)))

extract_points(root) ==
    ExtractLoop(SelectSeq(root.trk, LAMBDA e : LocalName(e.tag) = TRKPT), <<>>)

----------------------------------------------------------------------------
(* haversine and test_data *)

Abs(x) == IF x < 0 THEN -x ELSE x

\* 2 R atan2(sqrt a, sqrt(1 - a)) with a = sin^2(dphi / 2) when dlambda = 0,
\* which is R |dphi|: the difference of the latitudes in metres of arc
haversine(lat1, lon1, lat2, lon2) ==
    CASE lon1 = lon2 -> Abs(lat2 - lat1)

RECURSIVE TotalDist(_, _)
\* the loop "for i in range(1, len(points))", from i on
TotalDist(points, i) ==
    IF i > Len(points) THEN 0
    ELSE haversine(points[i - 1].lat, points[i - 1].lon, points[i].lat, points[i].lon)
         + TotalDist(points, i + 1)

MIN_POINTS == 10

\* avg_speed_kmh > v, with avg_speed_kmh = (total_dist / 1000) / (total_time / 3600)
\* and total_time > 0, compared exactly
SpeedAbove(total_dist, total_time, v) == total_dist * 3600 > v * 1000 * total_time

\* variant: the hike distance is tested with ">=" instead of ">"
Heuristic_HikeAtLeast(total_dist, total_time) ==
    IF SpeedAbove(total_dist, total_time, 12) THEN "ride"
    ELSE IF SpeedAbove(total_dist, total_time, 7)
            /\ ~SpeedAbove(total_dist, total_time, 12) THEN "run"
    ELSE IF SpeedAbove(total_dist, total_time, 4)
            /\ ~SpeedAbove(total_dist, total_time, 7) THEN "walk"
    ELSE IF ~SpeedAbove(total_dist, total_time, 4) /\ total_dist >= 5000 THEN "hike"
    ELSE IF total_time < 1800 /\ total_dist < 2000 THEN "workout"
    ELSE NO_SIGNAL

\* the threshold cascade of test_data
Heuristic(total_dist, total_time) ==
    IF SpeedAbove(total_dist, total_time, 12) THEN "ride"
    ELSE IF SpeedAbove(total_dist, total_time, 7)
            /\ ~SpeedAbove(total_dist, total_time, 12) THEN "run"
    ELSE IF SpeedAbove(total_dist, total_time, 4)
            /\ ~SpeedAbove(total_dist, total_time, 7) THEN "walk"
    ELSE IF ~SpeedAbove(total_dist, total_time, 4) /\ total_dist > 5000 THEN "hike"
    ELSE IF total_time < 1800 /\ total_dist < 2000 THEN "workout"
    ELSE NO_SIGNAL

HasDepth(root) ==
    LET elems == Iter(root)
    IN  \E i \in DOMAIN elems : Contains(DEPTH, Lower(elems[i].tag))

\* points[-1][2] - points[0][2] raises TypeError when one is aware and the other naive
SubtractRaises(points) == points[Len(points)].t.aware # points[1].t.aware

TotalTime(points) == points[Len(points)].t.secs - points[1].t.secs

\* variant: the depth test comes after the thresholds instead of before them
test_data_DepthLast(root) ==
    LET points == extract_points(root)
        verdict ==
            IF Len(points) < MIN_POINTS THEN NO_SIGNAL
            ELSE IF SubtractRaises(points) THEN TYPE_ERROR
            ELSE IF TotalTime(points) <= 0 THEN NO_SIGNAL
            ELSE Heuristic(TotalDist(points, 2), TotalTime(points))
    IN  IF verdict = NO_SIGNAL /\ HasDepth(root) THEN "swim" ELSE verdict

\* variant: the minimum is tested with "<=" on one point fewer
test_data_NinePoints(root) ==
    IF HasDepth(root) THEN "swim"
    ELSE LET points == extract_points(root)
         IN  IF Len(points) < MIN_POINTS - 1 THEN NO_SIGNAL
             ELSE IF SubtractRaises(points) THEN TYPE_ERROR
             ELSE IF TotalTime(points) <= 0 THEN NO_SIGNAL
             ELSE Heuristic(TotalDist(points, 2), TotalTime(points))

test_data(root) ==
    IF HasDepth(root) THEN "swim"
    ELSE LET points == extract_points(root)
         IN  IF Len(points) < MIN_POINTS THEN NO_SIGNAL
             ELSE IF SubtractRaises(points) THEN TYPE_ERROR
             ELSE IF TotalTime(points) <= 0 THEN NO_SIGNAL
             ELSE Heuristic(TotalDist(points, 2), TotalTime(points))

----------------------------------------------------------------------------
(* determine_gpx_activity *)

Count(results, x) == Cardinality({i \in DOMAIN results : results[i] = x})

\* Counter(results).most_common(1)[0]: the value with the most occurrences, the
\* one met first among equals, and its count
MostCommon(results) ==
    LET i == CHOOSE i \in DOMAIN results :
                 /\ \A j \in DOMAIN results :
                        Count(results, results[j]) <= Count(results, results[i])
                 /\ \A j \in 1..(i - 1) :
                        Count(results, results[j]) < Count(results, results[i])
    IN  [best |-> results[i], votes |-> Count(results, results[i])]

\* variant: the fallback prefers the kinematic verdict, then keyword, then metadata
Fallback_Reversed(rs, i) ==
    IF rs[3] # NO_SIGNAL THEN normalize_activity(rs[3])
    ELSE IF rs[2] # NO_SIGNAL THEN normalize_activity(rs[2])
    ELSE IF rs[1] # NO_SIGNAL THEN normalize_activity(rs[1])
    ELSE "Other"

RECURSIVE Fallback(_, _)
\* "for r in [r1, r2, r3]: if r != 0: return normalize_activity(r)", then "Other"
Fallback(rs, i) ==
    IF i > Len(rs) THEN "Other"
    ELSE IF rs[i] # NO_SIGNAL THEN normalize_activity(rs[i])
    ELSE Fallback(rs, i + 1)

\* variant: a majority needs all three votes
Decide_Unanimous(v1, v2, v3) ==
    LET results == SelectSeq(<<v1, v2, v3>>, LAMBDA r : r # NO_SIGNAL)
    IN  IF results # <<>> /\ MostCommon(results).votes >= 3
        THEN normalize_activity(MostCommon(results).best)
        ELSE Fallback(<<v1, v2, v3>>, 1)

\* determine_gpx_activity after the three tests have returned
Decide(v1, v2, v3) ==
    LET results == SelectSeq(<<v1, v2, v3>>, LAMBDA r : r # NO_SIGNAL)
    IN  IF results # <<>> /\ MostCommon(results).votes >= 2
        THEN normalize_activity(MostCommon(results).best)
        ELSE Fallback(<<v1, v2, v3>>, 1)

\* the value determine_gpx_activity returns, or TYPE_ERROR when test_data raises
determine_gpx_activity(root) ==
    IF test_data(root) = TYPE_ERROR THEN TYPE_ERROR
    ELSE Decide(test_metadata(root), test_keywords(root), test_data(root))

----------------------------------------------------------------------------
(* Documents examined *)

\* the largest number of leaf elements, the number of points of a generated
\* track, and the largest number of point elements of a hand-built track
MaxMeta == 2

TrackLen == 11

MaxTrk == 3

GPX == <<"g","p","x">>

TAG_TYPE == <<"t","y","p","e">>

TAG_NAME == <<"n","a","m","e">>

TAG_KEYWORDS == <<"k","e","y","w","o","r","d","s">>

TAG_XDESC == <<"{","x","}","d","e","s","c">>

RUNNING == <<"R","u","n","n","i","n","g">>

CYCLING == <<"c","y","c","l","i","n","g">>

POOL == <<"p","o","o","l">>

WATER_WALK == <<"w","a","t","e","r"," ","w","a","l","k">>

HIKE == <<"h","i","k","e">>

GYM == <<"g","y","m">>

OPEN == <<"o","p","e","n">>

TREKKING == <<"t","r","e","k","k","i","n","g"," ","t","h","e"," ",
              "m","o","u","n","t","a","i","n","s">>

\* one text per activity
SIX_TEXTS == {RUNNING, CYCLING, POOL, WATER_WALK, HIKE, GYM}

MAX_DEPTH == [tag |-> <<"M","a","x","D","e","p","t","h">>, text |-> <<>>]

Leaves ==
    [tag : {TAG_TYPE, TAG_NAME}, text : SIX_TEXTS]
    \cup [tag : {TAG_KEYWORDS}, text : {WATER_WALK, TREKKING}]
    \cup [tag : {TAG_XDESC}, text : {OPEN, TREKKING}]
    \cup {MAX_DEPTH}

SeqsUpTo(S, n) == UNION {[1..k -> S] : k \in 0..n}

Num(n) == [k |-> "num", v |-> n]

\* a well-formed point at lat metres along the meridian, at secs seconds
Trkpt(lat, secs, zone) ==
    [tag |-> TRKPT, lat |-> Num(lat), lon |-> Num(0),
     time |-> [k |-> zone, v |-> secs], ext |-> <<>>]

\* n points, step metres and dt seconds apart
Uniform(n, step, dt) == [i \in 1..n |-> Trkpt((i - 1) * step, (i - 1) * dt, "Z")]

\* n points going step metres forth and back, dt seconds apart
ZigZag(n, step, dt) == [i \in 1..n |-> Trkpt(((i - 1) % 2) * step, (i - 1) * dt, "Z")]

\* <step, dt> pairs: 36, 10.8, 5.4, 3.6 (long) and 3.6 (short) km/h
PACES == {<<100, 10>>, <<30, 10>>, <<15, 10>>, <<600, 600>>, <<10, 10>>}

\* the track with the last point's time written without a zone
NaiveEnd(trk) ==
    [trk EXCEPT ![Len(trk)] = [@ EXCEPT !.time = [k |-> "naive", v |-> @.v]]]

\* the track with a depth extension on its first point
WithDepth(trk) ==
    [trk EXCEPT ![1] = [@ EXCEPT !.ext = <<[tag |-> <<"{","x","}","d","e","p","t","h">>,
                                           text |-> <<>>]>>]]

\* the track with the latitude of its second and third points unparsable
TwoBad(trk) ==
    [i \in DOMAIN trk |->
        IF i \in {2, 3} THEN [trk[i] EXCEPT !.lat = [k |-> "junk", v |-> 0]] ELSE trk[i]]

Tracks ==
    {Uniform(TrackLen, p[1], p[2]) : p \in PACES}
    \cup {NaiveEnd(Uniform(TrackLen, 100, 10)),
          WithDepth(Uniform(TrackLen, 100, 10)),
          TwoBad(Uniform(TrackLen, 100, 10))}

Document(meta, trk) == [tag |-> GPX, text |-> <<>>, meta |-> meta, trk |-> trk]

\* documents with leaf elements and one of a few tracks
Docs == {Document(m, t) : m \in SeqsUpTo(Leaves, MaxMeta), t \in Tracks}

\* documents of leaf elements only, with tags and texts that match several ways
MetaDocs ==
    {Document(m, <<>>) :
        m \in SeqsUpTo(
            [tag : {TAG_TYPE, TAG_NAME,
                    <<"S","p","o","r","t">>,
                    <<"{","x","}","a","c","t","i","v","i","t","y","T","y","p","e">>},
             text : {<<>>, RUNNING, HIKE, CYCLING,
                     <<"p","o","o","l"," ","r","u","n">>,
                     <<"G","Y","M"," ","b","i","k","e">>,
                     <<"s","t","r","i","d","e">>}],
            MaxMeta)}

STEPS == {0, 10, 35, 100, 199, 200, 500, 501}

DTS == {-1, 0, 3, 9, 18, 179, 180, 450, 451}

\* the track with every time written without a zone
AllNaive(trk) ==
    [i \in DOMAIN trk |-> [trk[i] EXCEPT !.time = [k |-> "naive", v |-> @.v]]]

\* documents that are a track only: ten or more well-formed points
DataDocs ==
    {Document(<<>>, t) :
        t \in UNION {{Uniform(n, s, d), ZigZag(n, s, d)} :
                        n \in {MIN_POINTS, TrackLen}, s \in STEPS, d \in DTS}
              \cup {AllNaive(Uniform(TrackLen, 100, 10)), NaiveEnd(Uniform(TrackLen, 100, 10))}}

\* point elements, well-formed and malformed in each way extract_points tests
POINT_ELEMENTS ==
    LET good == Trkpt(1, 5, "Z")
    IN  { good,
          Trkpt(2, 3, "naive"),
          [Trkpt(3, 1, "offset") EXCEPT !.tag = <<"{","x","}","t","r","k","p","t">>],
          [good EXCEPT !.tag = <<"w","p","t">>],
          [good EXCEPT !.lat = [k |-> "absent", v |-> 0]],
          [good EXCEPT !.lat = [k |-> "empty", v |-> 0]],
          [good EXCEPT !.lat = [k |-> "junk", v |-> 0]],
          [good EXCEPT !.lon = [k |-> "absent", v |-> 0]],
          [good EXCEPT !.lon = [k |-> "junk", v |-> 0]],
          [good EXCEPT !.time = [k |-> "absent", v |-> 0]],
          [good EXCEPT !.time = [k |-> "notext", v |-> 0]],
          [good EXCEPT !.time = [k |-> "junk", v |-> 0]] }

\* documents that are a short list of point elements of any kind
ParseDocs == {Document(<<>>, t) : t \in SeqsUpTo(POINT_ELEMENTS, MaxTrk)}

----------------------------------------------------------------------------
(* The classifier: one document, classified once *)

NONE == "none"

InitGpx ==
    /\ pc = "ready"
    /\ track = <<>>
    /\ r1 = NONE /\ r2 = NONE /\ r3 = NONE
    /\ activity = NONE
    /\ folder = <<>> /\ log = <<>> /\ posts = <<>> /\ idx = 0 /\ runs = 0

Init == doc \in Docs /\ InitGpx

InitMeta == doc \in MetaDocs /\ InitGpx

InitData == doc \in DataDocs /\ InitGpx

InitParse == doc \in ParseDocs /\ InitGpx

\* determine_gpx_activity(filepath) on the parsed document
DetermineGpxActivity ==
    /\ pc = "ready"
    /\ r1' = test_metadata(doc)
    /\ r2' = test_keywords(doc)
    /\ r3' = test_data(doc)
    /\ activity' = IF r3' = TYPE_ERROR THEN TYPE_ERROR ELSE Decide(r1', r2', r3')
    /\ pc' = "done"
    /\ UNCHANGED <<doc, track, uploadVars>>

\* extract_points(root) on the parsed document
ExtractPoints ==
    /\ pc = "ready"
    /\ track' = extract_points(doc)
    /\ pc' = "parsed"
    /\ UNCHANGED <<doc, r1, r2, r3, activity, uploadVars>>

Next == DetermineGpxActivity

NextParse == ExtractPoints

Spec == Init /\ [][Next]_vars

SpecMeta == InitMeta /\ [][Next]_vars

SpecData == InitData /\ [][Next]_vars

SpecParse == InitParse /\ [][NextParse]_vars

----------------------------------------------------------------------------
(* Properties of the classifier.  The definitions of this part restate what *)
(* is claimed, in terms of the document and the recorded verdicts.         *)

ACTS == {"ride", "run", "swim", "walk", "hike", "workout"}

LABELS == {"Ride", "Run", "Swim", "Walk", "Hike", "Workout", "Other"}

CanonicalLabel(a) ==
    CASE a = "ride" -> "Ride" [] a = "run" -> "Run" [] a = "swim" -> "Swim"
      [] a = "walk" -> "Walk" [] a = "hike" -> "Hike" [] a = "workout" -> "Workout"

\* position in the declared order ride, run, swim, walk, hike, workout
Rank(a) ==
    CASE a = "ride" -> 1 [] a = "run" -> 2 [] a = "swim" -> 3
      [] a = "walk" -> 4 [] a = "hike" -> 5 [] a = "workout" -> 6

Done == pc = "done"

\* the three detectors each returned a verdict
HaveVerdicts == Done /\ r3 # TYPE_ERROR

Votes(a) == Cardinality({i \in 1..3 : <<r1, r2, r3>>[i] = a})

FirstSignal == IF r1 # NO_SIGNAL THEN r1 ELSE IF r2 # NO_SIGNAL THEN r2 ELSE r3

\* the tags of all elements of the document
AllTags ==
    {doc.tag} \cup {doc.meta[i].tag : i \in DOMAIN doc.meta}
    \cup {doc.trk[i].tag : i \in DOMAIN doc.trk}
    \cup {TIME : i \in {j \in DOMAIN doc.trk : doc.trk[j].time.k # "absent"}}
    \cup UNION {{doc.trk[i].ext[j].tag : j \in DOMAIN doc.trk[i].ext} : i \in DOMAIN doc.trk}

DepthNode == \E tag \in AllTags : Contains(DEPTH, Lower(tag))

\* the activities with a keyword occurring in the text, case-folded
Matching(text) == {a \in ACTS : AnyKeyword(a, Lower(text))}

\* a point element whose latitude, longitude and timestamp are present and parsable
WellFormed(e) ==
    /\ LocalName(e.tag) = TRKPT
    /\ e.lat.k = "num" /\ e.lon.k = "num"
    /\ e.time.k \in {"Z", "offset", "naive"}

GoodIdx == {i \in DOMAIN doc.trk : WellFormed(doc.trk[i])}

ParsedCount == Cardinality(GoodIdx)

\* C1 as claimed: a document with a node whose tag contains "depth" is classified
\* "Swim", whatever the metadata and keyword detectors and the points yield.
C1_DepthAlwaysSwim == (Done /\ DepthNode) => activity = "Swim"

\* C1 (amended): with a depth node the kinematic detector returns swim whatever
\* the points yield, and the classification is "Swim" exactly when the metadata
\* or keyword detector returns swim too or both return no signal.
C1_DepthVotesSwim ==
    (Done /\ DepthNode) =>
        /\ r3 = "swim"
        /\ activity = "Swim" <=>
              (r1 = "swim" \/ r2 = "swim" \/ (r1 = NO_SIGNAL /\ r2 = NO_SIGNAL))

C1_Witness ==
    /\ Done /\ DepthNode /\ ParsedCount >= MIN_POINTS
    /\ r1 = NO_SIGNAL /\ r2 = NO_SIGNAL /\ activity = "Swim"

\* C2: an activity returned by at least two of the three detectors is the
\* classification, whichever two agree and whatever the third returns.
C2_MajorityVote ==
    HaveVerdicts => \A a \in ACTS : Votes(a) >= 2 => activity = CanonicalLabel(a)

C2_Witness ==
    HaveVerdicts /\ r1 = "ride" /\ r2 = "run" /\ r3 = "ride" /\ activity = "Ride"

\* C3: when no activity has two votes and some detector fired, the
\* classification is the first verdict other than no signal in the order
\* metadata, keyword, kinematic.
C3_FallbackOrder ==
    (HaveVerdicts /\ (\A a \in ACTS : Votes(a) < 2) /\ Votes(NO_SIGNAL) < 3)
        => activity = CanonicalLabel(FirstSignal)

C3_Witness ==
    HaveVerdicts /\ r1 = "ride" /\ r2 = "run" /\ r3 = "walk" /\ activity = "Ride"

\* C4: the classification is one of the seven labels, never the no-signal
\* sentinel, and is "Other" when all three verdicts are no signal.
C4_ClosedOutput ==
    HaveVerdicts =>
        /\ {r1, r2, r3} \subseteq ACTS \cup {NO_SIGNAL}
        /\ activity \in LABELS
        /\ activity # NO_SIGNAL
        /\ Votes(NO_SIGNAL) = 3 => activity = "Other"

C4_Witness == HaveVerdicts /\ Votes(NO_SIGNAL) = 3 /\ activity = "Other"

\* C5 as claimed: fewer than ten parsed points and no metadata or keyword
\* signal give "Other".
C5_FewPointsOther ==
    (Done /\ ParsedCount < 10 /\ r1 = NO_SIGNAL /\ r2 = NO_SIGNAL) => activity = "Other"

\* C5 (amended): fewer than ten parsed points, no metadata or keyword signal and
\* no node whose tag contains "depth" give "Other".
C5_FewPointsNoDepthOther ==
    (Done /\ ParsedCount < 10 /\ r1 = NO_SIGNAL /\ r2 = NO_SIGNAL /\ ~DepthNode)
        => activity = "Other"

C5_Witness ==
    /\ Done /\ ParsedCount = 9 /\ Len(doc.trk) > 9 /\ ~DepthNode
    /\ r1 = NO_SIGNAL /\ r2 = NO_SIGNAL /\ activity = "Other"

\* the parsed points in document order, their number, the sum of the distances
\* between consecutive ones and the time from the first to the last
GoodPoints == SelectSeq(doc.trk, WellFormed)

PathLength ==
    LET RECURSIVE Sum(_)
        Sum(i) == IF i >= Len(GoodPoints) THEN 0
                  ELSE Abs(GoodPoints[i + 1].lat.v - GoodPoints[i].lat.v) + Sum(i + 1)
    IN  Sum(1)

Elapsed == GoodPoints[Len(GoodPoints)].time.v - GoodPoints[1].time.v

\* the first and the last point are both with a zone or both without
Subtractable ==
    (GoodPoints[1].time.k = "naive") <=> (GoodPoints[Len(GoodPoints)].time.k = "naive")

\* the verdict claimed for distance d (m) and time t (s); speed > v km/h is
\* 3.6 d / t > v
Claimed(d, t) ==
    IF t <= 0 THEN NO_SIGNAL
    ELSE IF 3 * d > 10 * t THEN "ride"
    ELSE IF 18 * d > 35 * t THEN "run"
    ELSE IF 9 * d > 10 * t THEN "walk"
    ELSE IF d > 5000 THEN "hike"
    ELSE IF t < 1800 /\ d < 2000 THEN "workout"
    ELSE NO_SIGNAL

\* C6: without a depth node and with ten or more parsed points, of total
\* distance d and elapsed time t, the kinematic verdict is no signal when t <= 0
\* and else the first match of: over 12 km/h ride, over 7 run, over 4 walk,
\* d > 5000 hike, t < 1800 and d < 2000 workout, else no signal; workout only
\* when the speed is at most 4 km/h.
C6_KinematicThresholds ==
    (Done /\ ~DepthNode /\ ParsedCount >= 10 /\ Subtractable) =>
        /\ r3 = Claimed(PathLength, Elapsed)
        /\ r3 = "workout" => 9 * PathLength <= 10 * Elapsed

\* a slow walk forth and back over more than 5 km, ending where it began
C6_Witness ==
    /\ Done /\ ~DepthNode /\ ParsedCount >= 10 /\ Subtractable
    /\ PathLength > 5000 /\ Elapsed > 0
    /\ GoodPoints[Len(GoodPoints)].lat.v = GoodPoints[1].lat.v
    /\ r3 = "hike"

\* C7: extract_points returns the well-formed points, and only those, in
\* document order, whatever lies between them.
C7_ParsedSubsequence ==
    pc = "parsed" =>
        /\ Len(track) = ParsedCount
        /\ \A i \in GoodIdx :
              track[Cardinality({j \in GoodIdx : j <= i})] =
                  [lat |-> doc.trk[i].lat.v, lon |-> doc.trk[i].lon.v,
                   t |-> [aware |-> doc.trk[i].time.k # "naive",
                          secs |-> doc.trk[i].time.v]]

\* two points kept around a malformed one, the later one earlier in time
C7_Witness ==
    /\ pc = "parsed" /\ Len(doc.trk) = 3 /\ GoodIdx = {1, 3}
    /\ Len(track) = 2 /\ track[1].t.secs > track[2].t.secs

\* the elements test_metadata takes texts from, in traversal order
CandidateElems ==
    SelectSeq(Iter(doc),
              LAMBDA e : \E m \in {META_MARKERS[i] : i \in DOMAIN META_MARKERS} :
                             Contains(m, Lower(e.tag)))

\* C8: the metadata verdict is the earliest-declared activity matched by the
\* first candidate that matches any activity, and no signal when none does.
C8_MetadataOrder ==
    Done =>
        LET hits == {i \in DOMAIN CandidateElems : Matching(CandidateElems[i].text) # {}}
        IN  IF hits = {} THEN r1 = NO_SIGNAL
            ELSE LET first == CHOOSE i \in hits : \A j \in hits : i <= j
                     found == Matching(CandidateElems[first].text)
                 IN  r1 \in found /\ \A a \in found : Rank(r1) <= Rank(a)

\* the second candidate matches an activity declared before the one returned
C8_Witness ==
    /\ Done /\ Len(CandidateElems) = 2
    /\ r1 = "hike" /\ "ride" \in Matching(CandidateElems[2].text)

\* the document has one keywords element, its text matches exactly activity x,
\* and no other text of the document matches any activity
OnlyKeywordsSays(x) ==
    \E k \in DOMAIN doc.meta :
        /\ doc.meta[k].tag = TAG_KEYWORDS
        /\ Matching(doc.meta[k].text) = {x}
        /\ \A j \in DOMAIN doc.meta \ {k} :
              doc.meta[j].tag # TAG_KEYWORDS /\ Matching(doc.meta[j].text) = {}
        /\ \A i \in DOMAIN doc.trk : \A j \in DOMAIN doc.trk[i].ext :
              Matching(doc.trk[i].ext[j].text) = {}

\* C9 as claimed: when the only activity vocabulary is in one keywords element
\* and matches exactly x, the metadata and keyword detectors both return x and
\* the classification is x's label.
C9_SharedKeywords ==
    \A x \in ACTS :
        (HaveVerdicts /\ OnlyKeywordsSays(x)) =>
            r1 = x /\ r2 = x /\ activity = CanonicalLabel(x)

\* C9 (amended): the same, provided the name, desc, cmt and keywords texts
\* joined by single spaces match no activity declared before x.
C9_SharedKeywordsUnlessJoined ==
    \A x \in ACTS :
        (/\ HaveVerdicts /\ OnlyKeywordsSays(x)
         /\ \A a \in Matching(Blob(doc)) : Rank(x) <= Rank(a))
            => r1 = x /\ r2 = x /\ activity = CanonicalLabel(x)

\* the kinematic detector says ride, the keywords element walk
C9_Witness ==
    /\ HaveVerdicts /\ OnlyKeywordsSays("walk")
    /\ r1 = "walk" /\ r2 = "walk" /\ r3 = "ride" /\ activity = "Walk"

----------------------------------------------------------------------------
(* The uploaded-files log and upload_folder.                               *)
(* folder is the list glob returns: files [name, size, doc], doc the       *)
(* parsed content of a .gpx file.  log is the content of                   *)
(* uploaded_activities.txt, a string.  posts lists the requests that       *)
(* reached the server, each with the kind of response it got.              *)

DIGITS == <<"0","1","2","3","4","5","6","7","8","9">>

RECURSIVE IntStr(_)
\* str(n) for n >= 0, as in the f-string "{filesize}"
IntStr(n) == IF n < 10 THEN <<DIGITS[n + 1]>> ELSE IntStr(n \div 10) \o <<DIGITS[(n % 10) + 1]>>

\* f"{filename}+{filesize}"
Entry(filename, filesize) == filename \o <<"+">> \o IntStr(filesize)

RECURSIVE Lines(_)
\* "for line in f": the content cut after each "\n"
Lines(content) ==
    IF content = <<>> THEN <<>>
    ELSE IF \E i \in DOMAIN content : content[i] = "\n"
         THEN LET nl == CHOOSE i \in DOMAIN content :
                            content[i] = "\n" /\ \A j \in 1..(i - 1) : content[j] # "\n"
              IN  <<SubSeq(content, 1, nl)>> \o Lines(SubSeq(content, nl + 1, Len(content)))
    ELSE <<content>>

is_already_uploaded(filename, filesize) ==
    \E i \in DOMAIN Lines(log) : Strip(Lines(log)[i]) = Entry(filename, filesize)

\* what log_uploaded_file appends to the log
LoggedLine(file) == Entry(file.name, file.size) \o <<"\n">>

\* os.path.splitext(path)[1].lower(): from the last "." on, "" without one
Ext(name) ==
    IF \E i \in DOMAIN name : name[i] = "." /\ i > 1
    THEN LET dot == CHOOSE i \in DOMAIN name :
                        name[i] = "." /\ \A j \in (i + 1)..Len(name) : name[j] # "."
         IN  Lower(SubSeq(name, dot, Len(name)))
    ELSE <<>>

DOT_GPX == <<".","g","p","x">>

DOT_TCX == <<".","t","c","x">>

DOT_FIT == <<".","f","i","t">>

\* activity_type of upload_folder, or TYPE_ERROR when determine_gpx_activity raises
ActivityType(file) ==
    IF Ext(file.name) = DOT_GPX THEN determine_gpx_activity(file.doc) ELSE "Workout"

\* data_type as the second if-chain of upload_folder leaves it (an extension
\* ending in ".gz" is ".gz" itself, so none of its inner tests holds)
DataType(file) ==
    LET ext == Ext(file.name)
    IN  IF ext = DOT_GPX THEN <<"g","p","x">>
        ELSE IF ext = DOT_TCX THEN <<"t","c","x">>
        ELSE IF ext = DOT_FIT THEN <<"f","i","t">>
        ELSE IF Len(ext) >= 3 /\ SubSeq(ext, Len(ext) - 2, Len(ext)) = <<".","g","z">>
             THEN LStrip(SubSeq(ext, 2, Len(ext)))
        ELSE <<"g","p","x">>

MaxFiles == 2

MaxRuns == 2

NO_DOC == Document(<<>>, <<>>)

FILES ==
    { [name |-> <<"a",".","g","p","x">>, size |-> 1,
       doc |-> Document(<<[tag |-> TAG_TYPE, text |-> RUNNING]>>, <<>>)],
      [name |-> <<" ","a",".","g","p","x">>, size |-> 12, doc |-> NO_DOC],
      [name |-> <<"b",".","F","I","T">>, size |-> 12, doc |-> NO_DOC],
      [name |-> <<"c",".","g","p","x">>, size |-> 7,
       doc |-> Document(<<>>, NaiveEnd(Uniform(TrackLen, 100, 10)))] }

\* folders of distinct files, in any order
Folders ==
    {f \in SeqsUpTo(FILES, MaxFiles) : \A i, j \in DOMAIN f : i # j => f[i] # f[j]}

\* what the request of one iteration comes to: a response with "id" or
\* "activity_id", a response without, an exception before the request is
\* sent, or one after (the response is not JSON)
OUTCOMES == {"id", "rejected", "unsent", "garbled"}

InitUpload ==
    /\ folder \in Folders
    /\ log = <<>> /\ posts = <<>> /\ idx = 0 /\ runs = 0
    /\ pc = "menu"
    /\ doc = NO_DOC /\ track = <<>>
    /\ r1 = NONE /\ r2 = NONE /\ r3 = NONE /\ activity = NONE

\* the loop of upload_folder moves on to the next file, or ends
Advance == IF idx < Len(folder) THEN idx' = idx + 1 /\ pc' = "loop"
           ELSE idx' = 0 /\ pc' = "menu"

\* menu choice 4: upload_folder up to its loop
StartRun ==
    /\ pc = "menu" /\ runs < MaxRuns
    /\ runs' = runs + 1
    /\ IF folder = <<>> THEN pc' = "menu" /\ idx' = 0
       ELSE pc' = "loop" /\ idx' = 1
    /\ UNCHANGED <<gpxVars, folder, log, posts>>

\* an iteration on a file found in the log: "continue"
SkipUploaded ==
    /\ pc = "loop"
    /\ is_already_uploaded(folder[idx].name, folder[idx].size)
    /\ Advance
    /\ UNCHANGED <<gpxVars, folder, log, posts, runs>>

\* an iteration in which determine_gpx_activity raises: the exception leaves
\* upload_folder and the menu, and the program ends, to be started again
AbortRun ==
    /\ pc = "loop"
    /\ ~is_already_uploaded(folder[idx].name, folder[idx].size)
    /\ ActivityType(folder[idx]) = TYPE_ERROR
    /\ pc' = "menu" /\ idx' = 0
    /\ UNCHANGED <<gpxVars, folder, log, posts, runs>>

\* an iteration that gets to the request (check_token, which comes before it,
\* touches only the credentials, which are left out)
PostFile(outcome) ==
    /\ pc = "loop"
    /\ ~is_already_uploaded(folder[idx].name, folder[idx].size)
    /\ ActivityType(folder[idx]) # TYPE_ERROR
    /\ posts' = IF outcome = "unsent" THEN posts
                ELSE Append(posts, [name |-> folder[idx].name, size |-> folder[idx].size,
                                    data_type |-> DataType(folder[idx]),
                                    activity_type |-> ActivityType(folder[idx]),
                                    response |-> outcome])
    /\ log' = IF outcome = "id" THEN log \o LoggedLine(folder[idx]) ELSE log
    /\ Advance
    /\ UNCHANGED <<gpxVars, folder, runs>>

NextUpload ==
    \/ StartRun
    \/ SkipUploaded
    \/ AbortRun
    \/ \E outcome \in OUTCOMES : PostFile(outcome)

SpecUpload == InitUpload /\ [][NextUpload]_vars

\* the entry of the file is a line of the log
EntryInLog(file) ==
    \E i \in 1..(Len(log) - Len(LoggedLine(file)) + 1) :
        /\ SubSeq(log, i, i + Len(LoggedLine(file)) - 1) = LoggedLine(file)
        /\ i = 1 \/ log[i - 1] = "\n"

\* C10: a file whose entry is in the log is never posted again; the log grows
\* only by the entry of a file just posted with a response that has an id; any
\* other outcome leaves the log as it was.
C10_NoReupload ==
    [][/\ posts' # posts => ~EntryInLog(folder[idx])
       /\ log' # log =>
             /\ posts' = Append(posts, posts'[Len(posts')])
             /\ posts'[Len(posts')].response = "id"
             /\ log' = log \o Entry(posts'[Len(posts')].name, posts'[Len(posts')].size)
                           \o <<"\n">>
       /\ (posts' # posts /\ posts'[Len(posts')].response # "id") => log' = log]_vars

====
